---------------------------- MODULE Spec2Model ----------------------------
(***************************************************************************)
(* Nagel-Schreckenberg traffic model (src/model.py): VehicleAgent and      *)
(* NaSchTraffic on a toroidal SingleGrid, driven by a simultaneous         *)
(* activation schedule (every agent's step(), then every agent's           *)
(* advance()).                                                             *)
(*                                                                         *)
(* One call of NaSchTraffic.step() is the sequence of actions              *)
(*   Step_Begin, VehicleStep (once per agent), VehicleAdvance (once per    *)
(*   agent), Step_End                                                      *)
(* and pc / i record how far the call has got.  An exception leaves the    *)
(* call (and the run) in pc = "error".                                     *)
(*                                                                         *)
(* Representation:                                                         *)
(*  - a position is a pair <<x, y>>; None stands for Python's None;        *)
(*  - grid maps every cell to the index (in schedule order) of the agent   *)
(*    it holds, or to Empty;                                               *)
(*  - random.random() is a draw in tenths (0..9), compared with 0.3 as 3;  *)
(*  - average_speed, a float quotient, is the fraction in lowest terms;    *)
(*  - averages, the list of all averages so far, is kept as its length     *)
(*    and its last entry (the entry each step() appends).                  *)
(***************************************************************************)
EXTENDS Integers, Sequences, FiniteSets, TLC

VARIABLES width, height, vehicle_quantity, general_max_speed,
          grid, agents, steps, running,
          total_speed, average_speed, averages, pc, i

vars == <<width, height, vehicle_quantity, general_max_speed,
          grid, agents, steps, running,
          total_speed, average_speed, averages, pc, i>>

config == <<width, height, vehicle_quantity, general_max_speed>>

(* ------------------------------ bounds -------------------------------- *)
MaxWidth == 3
MaxVehicles == 2
MaxSpeed == 2
MaxSteps == 102

(* ------------------------- program constants -------------------------- *)
DefaultHeight == 1
DefaultWidth == 60
DefaultMaxSpeed == 4
StepBudget == 100
BrakeThreshold == 3

Draws == {0, 2, 3, 9}

\* The draws for which STEP 3 leaves the speed alone.
NoBrakeDraws == {d \in Draws : ~(d < BrakeThreshold)}

None == <<-1, -1>>
Empty == 0

(* ------------------------------- grid --------------------------------- *)
Cells(w, h) == (0 .. w - 1) \X (0 .. h - 1)

\* Mutant of TorusAdj: the two dimensions swapped in the wrap.
TorusAdjSwapped(pos) ==
    IF pos \in Cells(width, height)
    THEN pos
    ELSE <<pos[1] % height, pos[2] % width>>

\* Grid.torus_adj: a position inside the grid is returned as it is, any
\* other is wrapped modulo the grid's dimensions.
TorusAdj(pos) ==
    IF pos \in Cells(width, height)
    THEN pos
    ELSE <<pos[1] % width, pos[2] % height>>

IsCellEmpty(g, pos) == g[pos] = Empty

\* The cells a shuffle of coord_iter() followed by position_agent can give
\* to n agents: any n distinct cells, in any order.
Placements(w, h, n) ==
    {p \in [1 .. n -> Cells(w, h)] : \A a, b \in 1 .. n : a # b => p[a] # p[b]}

\* VehicleAgent.__init__
NewVehicle(pos, max_speed) ==
    [pos |-> pos, speed |-> 0, max_speed |-> max_speed, next_pos |-> None]

GridOf(w, h, p) ==
    [c \in Cells(w, h) |->
        IF \E a \in DOMAIN p : p[a] = c
        THEN CHOOSE a \in DOMAIN p : p[a] = c
        ELSE Empty]

(* --------------------------- VehicleAgent.step ------------------------ *)
\* Mutant of Accelerate: the speed jumps to max_speed.
AccelerateJump(speed, max_speed) ==
    IF speed < max_speed THEN max_speed ELSE speed

\* STEP 1: ACCELERATION
Accelerate(speed, max_speed) ==
    IF speed < max_speed THEN speed + 1 ELSE speed

\* STEP 2: DECELERATION, the loop from its iteration `distance` on, with
\* distance_to_next = d so far.
RECURSIVE Scan(_, _, _, _, _, _)
Scan(g, pos, speed, max_speed, distance, d) ==
    IF distance > max_speed
    THEN d
    ELSE LET test_pos == TorusAdj(<<pos[1] + distance, pos[2]>>)
         IN  IF IsCellEmpty(g, test_pos)
             THEN IF d + 1 = speed
                  THEN d + 1
                  ELSE Scan(g, pos, speed, max_speed, distance + 1, d + 1)
             ELSE d

\* Mutant of DistanceToNext: the scan does not stop at an occupied cell, it
\* counts the empty cells among the next max_speed ones.
RECURSIVE ScanNoBreak(_, _, _, _, _, _)
ScanNoBreak(g, pos, speed, max_speed, distance, d) ==
    IF distance > max_speed
    THEN d
    ELSE LET test_pos == TorusAdj(<<pos[1] + distance, pos[2]>>)
         IN  IF IsCellEmpty(g, test_pos)
             THEN IF d + 1 = speed
                  THEN d + 1
                  ELSE ScanNoBreak(g, pos, speed, max_speed, distance + 1, d + 1)
             ELSE ScanNoBreak(g, pos, speed, max_speed, distance + 1, d)

DistanceToNextNoBreak(g, pos, speed, max_speed) ==
    ScanNoBreak(g, pos, speed, max_speed, 1, 0)

\* Mutant of DistanceToNext: the cell that stops the scan is counted too.
DistanceToNextInclusive(g, pos, speed, max_speed) ==
    LET d == Scan(g, pos, speed, max_speed, 1, 0)
    IN  IF d < speed THEN d + 1 ELSE d

\* Mutant of DistanceToNext: the scan does not stop when the count reaches
\* the speed, it counts the whole gap within max_speed cells.
RECURSIVE ScanWholeGap(_, _, _, _)
ScanWholeGap(g, pos, max_speed, distance) ==
    IF distance > max_speed
    THEN distance - 1
    ELSE IF IsCellEmpty(g, TorusAdj(<<pos[1] + distance, pos[2]>>))
         THEN ScanWholeGap(g, pos, max_speed, distance + 1)
         ELSE distance - 1

DistanceToNextWholeGap(g, pos, speed, max_speed) ==
    ScanWholeGap(g, pos, max_speed, 1)

\* Mutant of DistanceToNext: the scan starts on the vehicle's own cell.
DistanceToNextFromOwnCell(g, pos, speed, max_speed) ==
    Scan(g, pos, speed, max_speed, 0, 0)

\* Mutant of DistanceToNext: the deceleration rule is left out.
DistanceToNextIgnoreGap(g, pos, speed, max_speed) == speed

DistanceToNext(g, pos, speed, max_speed) ==
    Scan(g, pos, speed, max_speed, 1, 0)

\* Mutant of Randomise: a draw equal to the threshold brakes too.
RandomiseInclusive(speed, draw) ==
    IF draw <= BrakeThreshold /\ speed > 0 THEN speed - 1 ELSE speed

\* Mutant of Randomise: the test speed > 0 is left out.
RandomiseNoGuard(speed, draw) ==
    IF draw < BrakeThreshold THEN speed - 1 ELSE speed

\* STEP 3: RANDOMISATION
Randomise(speed, draw) ==
    IF draw < BrakeThreshold /\ speed > 0 THEN speed - 1 ELSE speed

\* STEP 4: MOVEMENT
NextPos(pos, speed) == TorusAdj(<<pos[1] + speed, pos[2]>>)

\* Mutant of AccumulateSpeed: the total is overwritten, not added to.
AccumulateOverwrite(total, speed) == speed

AccumulateSpeed(total, speed) == total + speed

\* The agent after its step(), for the draw it makes.
SteppedVehicle(g, a, draw) ==
    LET s1 == Accelerate(a.speed, a.max_speed)
        s2 == DistanceToNext(g, a.pos, s1, a.max_speed)
        s3 == Randomise(s2, draw)
    IN  [a EXCEPT !.speed = s3, !.next_pos = NextPos(a.pos, s3)]

\* Mutant of AgentStep: the agent moves to its next position as soon as it
\* has computed it.
AgentStepThenMove(g, ags, total, k, draw) ==
    LET a == SteppedVehicle(g, ags[k], draw)
        vacated == [g EXCEPT ![a.pos] = Empty]
    IN  [grid |-> [vacated EXCEPT ![a.next_pos] = k],
         agents |-> [ags EXCEPT ![k] = [a EXCEPT !.pos = a.next_pos]],
         total_speed |-> AccumulateSpeed(total, a.speed)]

\* What VehicleAgent.step of agent k changes: the agent itself and the
\* model's total_speed; the grid is read, not written.
AgentStep(g, ags, total, k, draw) ==
    LET a == SteppedVehicle(g, ags[k], draw)
    IN  [grid |-> g,
         agents |-> [ags EXCEPT ![k] = a],
         total_speed |-> AccumulateSpeed(total, a.speed)]

\* step() of the agents in the order given (a sequence of agent indices),
\* agent k making the draw dr[k].
RECURSIVE StepInOrder(_, _, _, _, _)
StepInOrder(g, ags, total, order, dr) ==
    IF order = << >>
    THEN [grid |-> g, agents |-> ags, total_speed |-> total]
    ELSE LET k == Head(order)
             r == AgentStep(g, ags, total, k, dr[k])
         IN  StepInOrder(r.grid, r.agents, r.total_speed, Tail(order), dr)

(* -------------------------- VehicleAgent.advance ---------------------- *)
\* SingleGrid.move_agent to the agent's _next_pos: the agent's cell is
\* vacated, then the agent is placed on the target, which raises (ok is
\* false, the agent keeps its old pos) if the target holds an agent.
AgentAdvance(g, ags, k) ==
    LET a == ags[k]
        target == TorusAdj(a.next_pos)
        vacated == [g EXCEPT ![a.pos] = Empty]
    IN  IF IsCellEmpty(vacated, target)
        THEN [grid |-> [vacated EXCEPT ![target] = k],
              agents |-> [ags EXCEPT ![k].pos = target],
              ok |-> TRUE]
        ELSE [grid |-> vacated, agents |-> ags, ok |-> FALSE]

\* advance() of the agents in the order given (a sequence of agent
\* indices), up to the first one that raises.
RECURSIVE AdvanceInOrder(_, _, _)
AdvanceInOrder(g, ags, order) ==
    IF order = << >>
    THEN [grid |-> g, agents |-> ags, ok |-> TRUE]
    ELSE LET r == AgentAdvance(g, ags, Head(order))
         IN  IF r.ok THEN AdvanceInOrder(r.grid, r.agents, Tail(order)) ELSE r

(* ------------------------- NaSchTraffic.step -------------------------- *)
RECURSIVE Gcd(_, _)
Gcd(a, b) == IF b = 0 THEN a ELSE Gcd(b, a % b)

Fraction(n, d) == [num |-> n \div Gcd(n, d), den |-> d \div Gcd(n, d)]

Zero == [num |-> 0, den |-> 1]

\* Mutant of AverageSpeed: the quotient is taken without the test of the
\* agent count; a division by 0 gives no value (denominator 0).
AverageSpeedUnguarded(total, count) ==
    IF count # 0 THEN Fraction(total, count) ELSE [num |-> total, den |-> 0]

AverageSpeed(total, count) ==
    IF count > 0 THEN Fraction(total, count) ELSE Zero

\* Mutant of RunningAfterCheck: the test of the step budget is left out.
RunningNeverCleared(st, r) == r

RunningAfterCheck(st, r) == IF st = StepBudget THEN FALSE ELSE r

\* The schedule's position after agent k of n has had its step() or advance().
AfterAgent(phase, k, n) ==
    IF k < n THEN <<phase, k + 1>>
    ELSE IF phase = "step" THEN <<"advance", 1>>
    ELSE <<"finish", 0>>

(* ------------------------------- Init --------------------------------- *)
\* NaSchTraffic.__init__ with a lane of w x h cells, n vehicles placed on
\* the cells p and maximum speed s.
InitWith(w, h, n, s, p) ==
    /\ width = w
    /\ height = h
    /\ vehicle_quantity = n
    /\ general_max_speed = s
    /\ grid = GridOf(w, h, p)
    /\ agents = [a \in DOMAIN p |-> NewVehicle(p[a], s)]
    /\ steps = 0
    /\ running = TRUE
    /\ total_speed = 0
    /\ average_speed = Zero
    /\ averages = [len |-> 0, last |-> Zero]
    /\ pc = "idle"
    /\ i = 0

Init ==
    \E w \in 1 .. MaxWidth, n \in 0 .. MaxVehicles, s \in 1 .. MaxSpeed :
        /\ n <= w * DefaultHeight
        /\ \E p \in Placements(w, DefaultHeight, n) :
              InitWith(w, DefaultHeight, n, s, p)

(* ------------------------------ actions ------------------------------- *)
\* NaSchTraffic.step up to the call of schedule.step()
Step_Begin ==
    /\ pc = "idle"
    /\ steps < MaxSteps
    /\ running' = RunningAfterCheck(steps, running)
    /\ total_speed' = 0
    /\ pc' = IF Len(agents) = 0 THEN "finish" ELSE "step"
    /\ i' = IF Len(agents) = 0 THEN 0 ELSE 1
    /\ UNCHANGED <<config, grid, agents, steps, average_speed, averages>>

\* Mutant of VehicleStep: sequential update, the agent moves as soon as it has
\* computed its next position.
VehicleStepThenMove ==
    /\ pc = "step"
    /\ \E draw \in Draws :
          LET a == SteppedVehicle(grid, agents[i], draw)
              vacated == [grid EXCEPT ![a.pos] = Empty]
          IN  /\ IsCellEmpty(vacated, a.next_pos)
              /\ grid' = [vacated EXCEPT ![a.next_pos] = i]
              /\ agents' = [agents EXCEPT ![i] = [a EXCEPT !.pos = a.next_pos]]
              /\ total_speed' = AccumulateSpeed(total_speed, a.speed)
    /\ pc' = AfterAgent(pc, i, Len(agents))[1]
    /\ i' = AfterAgent(pc, i, Len(agents))[2]
    /\ UNCHANGED <<config, steps, running, average_speed, averages>>

\* VehicleAgent.step of agent i, its draw taken from D
VehicleStepWith(D) ==
    /\ pc = "step"
    /\ \E draw \in D :
          LET r == AgentStep(grid, agents, total_speed, i, draw)
          IN  /\ grid' = r.grid
              /\ agents' = r.agents
              /\ total_speed' = r.total_speed
    /\ pc' = AfterAgent(pc, i, Len(agents))[1]
    /\ i' = AfterAgent(pc, i, Len(agents))[2]
    /\ UNCHANGED <<config, steps, running, average_speed, averages>>

VehicleStep == VehicleStepWith(Draws)

\* VehicleAgent.advance of agent i
VehicleAdvance ==
    /\ pc = "advance"
    /\ LET r == AgentAdvance(grid, agents, i)
       IN  /\ grid' = r.grid
           /\ agents' = r.agents
           /\ IF r.ok
              THEN /\ pc' = AfterAgent(pc, i, Len(agents))[1]
                   /\ i' = AfterAgent(pc, i, Len(agents))[2]
              ELSE /\ pc' = "error"
                   /\ UNCHANGED i
    /\ UNCHANGED <<config, steps, running, total_speed, average_speed, averages>>

\* The end of schedule.step() and the rest of NaSchTraffic.step
Step_End ==
    /\ pc = "finish"
    /\ steps' = steps + 1
    /\ average_speed' = AverageSpeed(total_speed, Len(agents))
    /\ averages' = [len |-> averages.len + 1, last |-> average_speed']
    /\ pc' = "idle"
    /\ i' = 0
    /\ UNCHANGED <<config, grid, agents, running, total_speed>>

Next == Step_Begin \/ VehicleStep \/ VehicleAdvance \/ Step_End

Spec == Init /\ [][Next]_vars

\* The host loop: step() is called only while running is true, and the loop
\* keeps going as long as it can.
HostNext == (running /\ Step_Begin) \/ VehicleStep \/ VehicleAdvance \/ Step_End

HostSpec == Init /\ [][HostNext]_vars /\ WF_vars(HostNext)

\* Mutant of InitFails: the loop places as many vehicles as there are cells
\* and goes on.
InitNeverFails(w, h, n) == FALSE

\* The loop that sets up the agents reads cells[vehicle_iter] for each of
\* the n vehicles: it raises IndexError when there are fewer cells.
InitFails(w, h, n) == n > w * h

Min(a, b) == IF a < b THEN a ELSE b

\* NaSchTraffic.__init__ left by the exception: every cell has got a vehicle
\* and the assignment running = True was not reached; nobody holds the model,
\* so no step() can be called.
InitFailedWith(w, h, n, s, p) ==
    /\ width = w
    /\ height = h
    /\ vehicle_quantity = n
    /\ general_max_speed = s
    /\ grid = GridOf(w, h, p)
    /\ agents = [a \in DOMAIN p |-> NewVehicle(p[a], s)]
    /\ steps = 0
    /\ running = FALSE
    /\ total_speed = 0
    /\ average_speed = Zero
    /\ averages = [len |-> 0, last |-> Zero]
    /\ pc = "init_failed"
    /\ i = 0

\* NaSchTraffic.__init__ for any vehicle_quantity and any general_max_speed,
\* which the constructor takes as they are.
InitAny ==
    \E w \in 1 .. MaxWidth, n \in 0 .. MaxVehicles, s \in (0 - 1) .. MaxSpeed :
        \E p \in Placements(w, DefaultHeight, Min(n, w * DefaultHeight)) :
            IF InitFails(w, DefaultHeight, n)
            THEN InitFailedWith(w, DefaultHeight, n, s, p)
            ELSE InitWith(w, DefaultHeight, n, s, p)

AnySpec == InitAny /\ [][Next]_vars

\* The reference lane (width 60, max speed 4) with one vehicle on cell 0,
\* whose first three draws do not brake.
ScenarioInit ==
    InitWith(DefaultWidth, DefaultHeight, 1, DefaultMaxSpeed, <<(<<0, 0>>)>>)

ScenarioNext ==
    \/ Step_Begin
    \/ VehicleStepWith(IF steps < 3 THEN NoBrakeDraws ELSE Draws)
    \/ VehicleAdvance
    \/ Step_End

ScenarioSpec == ScenarioInit /\ [][ScenarioNext]_vars

\* Runs in which no draw is below the braking threshold.
NoBrakeNext ==
    \/ Step_Begin
    \/ VehicleStepWith(NoBrakeDraws)
    \/ VehicleAdvance
    \/ Step_End

NoBrakeSpec == Init /\ [][NoBrakeNext]_vars

(* ------------------------- auxiliary notions -------------------------- *)
Ids == DOMAIN agents

Positions == [k \in Ids |-> agents[k].pos]

Ahead(pos, d) == <<(pos[1] + d) % width, pos[2]>>

\* The cells agent k passes over and lands on are all empty.
PathClear(k) ==
    \A d \in 1 .. agents[k].speed : grid[Ahead(agents[k].pos, d)] = Empty

RECURSIVE SumSpeeds(_)
SumSpeeds(S) ==
    IF S = {} THEN 0
    ELSE LET k == CHOOSE x \in S : TRUE
         IN  agents[k].speed + SumSpeeds(S \ {k})

Full == Len(agents) = width * height

\* The sum of the speeds that the vehicles of S get from their own step()
\* on the present lane, vehicle k making the draw dr[k].
RECURSIVE SumSteppedSpeeds(_, _)
SumSteppedSpeeds(S, dr) ==
    IF S = {} THEN 0
    ELSE LET k == CHOOSE x \in S : TRUE
         IN  SteppedVehicle(grid, agents[k], dr[k]).speed
             + SumSteppedSpeeds(S \ {k}, dr)

\* The draws on either side of the braking threshold.
EdgeDraws == {d \in Draws : d = BrakeThreshold \/ d = BrakeThreshold - 1}

\* Every order in which the agents can be taken.
Orders ==
    {o \in [1 .. Len(agents) -> Ids] :
        \A a, b \in 1 .. Len(agents) : a # b => o[a] # o[b]}

\* The number of consecutive empty cells right ahead of pos, counted over
\* the next max_speed cells at most.
EmptyAhead(g, pos, max_speed) ==
    LET runs == {n \in 0 .. max_speed :
                    \A d \in 1 .. n : g[Ahead(pos, d)] = Empty}
    IN  IF runs = {} THEN 0
        ELSE CHOOSE n \in runs : \A m \in runs : m <= n

(* ------------------------------- claims ------------------------------- *)

\* C1: in every reachable state the vehicles' positions are pairwise
\* distinct, and every vehicle is the one occupant of its own cell.
C1_NoOverlap ==
    /\ \A a, b \in Ids : a # b => agents[a].pos # agents[b].pos
    /\ \A a \in Ids : agents[a].pos \in DOMAIN grid /\ grid[agents[a].pos] = a
    /\ \A c \in DOMAIN grid : grid[c] # Empty => grid[c] \in Ids /\ agents[grid[c]].pos = c

\* A vehicle has moved and now stands right behind another one.
C1_Witness ==
    /\ pc = "idle"
    /\ steps >= 2
    /\ \E a, b \in Ids :
          /\ a # b
          /\ agents[a].speed >= 1
          /\ agents[b].pos = Ahead(agents[a].pos, 1)

\* C2: while the compute phase runs, the lane and every position stay as
\* they were at the start of the step; the commit phase begins only after the
\* last vehicle has computed; the lane changes only in the commit phase, in
\* which no speed and no pending position changes any more.
C2_ComputeBeforeCommit ==
    [][ /\ pc = "step" =>
              /\ grid' = grid
              /\ Positions' = Positions
              /\ pc' \in {"step", "advance"}
              /\ pc' = "advance" => i = Len(agents)
        /\ (grid' # grid \/ Positions' # Positions) => pc = "advance"
        /\ pc = "advance" =>
              \A k \in Ids : /\ agents'[k].speed = agents[k].speed
                             /\ agents'[k].next_pos = agents[k].next_pos
      ]_vars

\* Every vehicle has computed, one of them a move, and none has committed.
C2_Witness ==
    /\ pc = "advance"
    /\ i = 1
    /\ Len(agents) >= 2
    /\ \E k \in Ids : agents[k].next_pos # agents[k].pos

\* C3: a vehicle's move passes over and ends on empty cells only: for every
\* vehicle that has computed and not yet committed, the cells from the one
\* after its position up to its destination hold no vehicle, its destination
\* is the last of them and it does not go round the ring.
C3_NeverIntoOrPast ==
    LET computed == IF pc = "step" THEN 1 .. (i - 1)
                    ELSE IF pc = "advance" THEN i .. Len(agents)
                    ELSE {}
    IN  \A k \in computed :
           /\ PathClear(k)
           /\ agents[k].speed < width
           /\ agents[k].next_pos = Ahead(agents[k].pos, agents[k].speed)

\* A vehicle that wanted to go faster is held to the gap in front of it: the
\* cell after its destination holds another vehicle.
C3_Witness ==
    /\ pc = "advance"
    /\ i = 1
    /\ \E k \in Ids :
          /\ agents[k].speed >= 1
          /\ agents[k].speed < agents[k].max_speed
          /\ grid[Ahead(agents[k].pos, agents[k].speed + 1)] \notin {Empty, k}

\* C4: every vehicle's speed is between 0 and its max_speed in every state.
C4_SpeedInRange ==
    \A k \in Ids : 0 <= agents[k].speed /\ agents[k].speed <= agents[k].max_speed

\* Between compute and commit, one vehicle at full speed and one stopped
\* that was moving before.
C4_Witness ==
    /\ pc = "advance"
    /\ \E a, b \in Ids :
          /\ agents[a].speed = agents[a].max_speed
          /\ agents[b].speed = 0
          /\ steps >= 1

\* C5: after each completed call of step(), running is true iff fewer than
\* StepBudget steps have completed.
C5_RunningIffBelowBudget ==
    (pc = "idle" /\ steps <= StepBudget) => (running <=> steps < StepBudget)

\* C6: a call of step() made while running is false is rejected: it fails or
\* changes nothing.
C6_StepRejectedWhenStopped ==
    [][ (pc = "idle" /\ ~running) =>
            /\ pc' \in {"idle", "error"}
            /\ UNCHANGED <<agents, grid, steps, total_speed, average_speed, averages>>
      ]_vars

\* C7: the host loop terminates: eventually running is false and no call is
\* in progress, for good.
C7_HostLoopTerminates == <>[](~running /\ pc = "idle")

\* The loop has ended.
C7_Witness == ~running /\ pc = "idle" /\ steps > StepBudget

\* C8: a commit puts the vehicle on ((old x + speed) mod width, y), a cell of
\* the lane, and never fails.
C8_MoveIsModular ==
    [][ pc = "advance" =>
            LET a == agents[i]
                b == agents'[i]
            IN  /\ pc' # "error"
                /\ b.pos = <<(a.pos[1] + a.speed) % width, a.pos[2]>>
                /\ b.pos \in Cells(width, height)
                /\ grid'[b.pos] = i
      ]_vars

\* A vehicle has gone from the last cell round to the start of the lane.
C8_Witness ==
    /\ pc = "finish"
    /\ width >= 3
    /\ \E k \in Ids :
          /\ agents[k].speed >= 2
          /\ agents[k].pos[1] = agents[k].speed - 1

\* C9: total_speed is 0 when the compute phase starts, grows by each
\* vehicle's final speed as the vehicle computes and not otherwise, so it is
\* the sum of all speeds from the end of the compute phase on; after the step
\* average_speed is total_speed / number of vehicles, the entry appended.
C9_TotalSpeedIsSum ==
    /\ pc = "step" => total_speed = SumSpeeds(1 .. (i - 1))
    /\ pc # "step" => total_speed = SumSpeeds(Ids)
    /\ (pc = "idle" /\ steps >= 1 /\ Len(agents) > 0) =>
          /\ average_speed.den > 0
          /\ average_speed.num * Len(agents) = total_speed * average_speed.den
          /\ averages.last = average_speed

\* After a step of two vehicles, one moving and one stopped: the average
\* speed is 1/2.
C9_Witness ==
    /\ pc = "idle"
    /\ steps >= 2
    /\ Len(agents) = 2
    /\ \E k \in Ids : agents[k].speed = 1
    /\ average_speed = [num |-> 1, den |-> 2]

\* C10: on a full lane every vehicle has speed 0 after every compute and no
\* vehicle ever changes position.
C10_FullLaneFrozen ==
    [][ Full =>
            /\ \A k \in Ids : agents'[k].speed = 0
            /\ Positions' = Positions
            /\ grid' = grid
      ]_vars

\* A full lane of several vehicles after some steps.
C10_Witness ==
    /\ Full
    /\ Len(agents) >= 2
    /\ pc = "idle"
    /\ steps >= 2

\* C11: without vehicles no step fails and average_speed, the entry each
\* step appends to averages, is 0.
C11_EmptyLaneAverageZero ==
    Len(agents) = 0 =>
        /\ pc # "error"
        /\ average_speed = Zero
        /\ averages.last = Zero
        /\ averages.len = steps
        /\ total_speed = 0

\* Several steps have been taken on a lane without vehicles.
C11_Witness ==
    /\ Len(agents) = 0
    /\ vehicle_quantity = 0
    /\ pc = "idle"
    /\ steps >= 3
    /\ averages.len = steps

\* C12: on the reference lane, one vehicle starting on cell 0 without
\* braking has speeds 1, 2, 3 and positions 1, 3, 6 after steps 1, 2, 3.
C12_LoneVehicleScenario ==
    pc = "idle" =>
        /\ steps = 0 => agents[1].speed = 0 /\ agents[1].pos = <<0, 0>>
        /\ steps = 1 => agents[1].speed = 1 /\ agents[1].pos = <<1, 0>>
        /\ steps = 2 => agents[1].speed = 2 /\ agents[1].pos = <<3, 0>>
        /\ steps = 3 => agents[1].speed = 3 /\ agents[1].pos = <<6, 0>>

\* The third step of the scenario is done.
C12_Witness ==
    /\ width = 60
    /\ general_max_speed = 4
    /\ pc = "idle"
    /\ steps = 3
    /\ agents[1].pos = <<6, 0>>

C15_InvalidConfigFailsInit ==
    (general_max_speed <= 0 \/ width <= 0 \/ height <= 0) => pc = "init_failed"

\* C16: for the vehicle about to compute, the gap check gives exactly the
\* smaller of its speed after acceleration and the number of consecutive
\* empty cells ahead (over max_speed cells at most), and the speed the
\* vehicle ends its step() with is that value or, having braked, one less.
C16_GapCheckIsMin ==
    [][ pc = "step" =>
            LET a == agents[i]
                tentative == Accelerate(a.speed, a.max_speed)
                gap == EmptyAhead(grid, a.pos, a.max_speed)
                m == Min(tentative, gap)
            IN  /\ DistanceToNext(grid, a.pos, tentative, a.max_speed) = m
                /\ agents'[i].speed <= gap
                /\ agents'[i].speed \in {m, m - 1}
      ]_vars

\* A vehicle has been held to a gap of at least one cell, smaller than its
\* speed after acceleration.
C16_Witness ==
    /\ pc = "step"
    /\ i = 2
    /\ agents[1].speed >= 1
    /\ agents[1].speed = EmptyAhead(grid, agents[1].pos, agents[1].max_speed)
    /\ agents[1].speed < agents[1].max_speed
    /\ steps >= 1

\* The lone vehicle's scan does not reach its own cell, its gap check leaves
\* the speed after acceleration as it is and, without braking, its speed
\* after k steps is min(k, max_speed).
LoneVehicleUnhindered ==
    LET a == agents[1]
        tentative == Accelerate(a.speed, a.max_speed)
    IN  /\ pc = "step" =>
              /\ \A d \in 1 .. a.max_speed : Ahead(a.pos, d) # a.pos
              /\ DistanceToNext(grid, a.pos, tentative, a.max_speed) = tentative
        /\ pc = "idle" => a.speed = Min(steps, a.max_speed)

\* C17 as stated: on a lane with exactly one vehicle, whatever the width and
\* the max speed, the lone vehicle is unhindered.
C17_LoneVehicleAnyWidth ==
    Len(agents) = 1 => LoneVehicleUnhindered

\* C17 as amended: on a lane with exactly one vehicle and width > max_speed
\* the lone vehicle is unhindered.
C17_LoneVehicleWideLane ==
    (Len(agents) = 1 /\ width > general_max_speed) => LoneVehicleUnhindered

\* A lone vehicle on a lane wider than its max speed has reached max speed.
C17_Witness ==
    /\ Len(agents) = 1
    /\ width > general_max_speed
    /\ general_max_speed >= 2
    /\ pc = "idle"
    /\ steps >= 3
    /\ agents[1].speed = agents[1].max_speed

\* C18: when the compute phase is over the pending destinations are
\* pairwise distinct and none is a cell that holds another vehicle; the
\* commits, taken in any order, never raise and all end in the same lane, each
\* vehicle on its destination; no run reaches the occupied-cell error.
C18_CommitAnyOrder ==
    /\ pc # "error"
    /\ (pc = "advance" /\ i = 1) =>
          /\ \A a, b \in Ids : a # b => agents[a].next_pos # agents[b].next_pos
          /\ \A k \in Ids : grid[agents[k].next_pos] \in {Empty, k}
          /\ \A o \in Orders :
                LET r == AdvanceInOrder(grid, agents, o)
                IN  /\ r.ok
                    /\ \A k \in Ids : r.agents[k].pos = agents[k].next_pos
                    /\ \A c \in DOMAIN grid :
                          r.grid[c] = IF \E k \in Ids : agents[k].next_pos = c
                                      THEN CHOOSE k \in Ids : agents[k].next_pos = c
                                      ELSE Empty

\* All commits of a step of several vehicles, one of them moving, are done.
C18_Witness ==
    /\ pc = "finish"
    /\ Len(agents) >= 2
    /\ steps >= 1
    /\ \E k \in Ids : agents[k].speed >= 1 /\ agents[k].pos = agents[k].next_pos

\* C19: at the start of a compute phase, for every draw of every vehicle,
\* step() applied to the vehicles in any order leaves the lane and every
\* position as they are and gives each vehicle the speed and pending position
\* that its own step() gives on the lane of the start of the step, and
\* total_speed the sum of these speeds.
C19_ComputeAnyOrder ==
    (pc = "step" /\ i = 1) =>
        \A dr \in [Ids -> EdgeDraws] :
            \A o \in Orders :
                LET r == StepInOrder(grid, agents, total_speed, o, dr)
                IN  /\ r.grid = grid
                    /\ \A k \in Ids :
                          /\ r.agents[k].pos = agents[k].pos
                          /\ r.agents[k] = SteppedVehicle(grid, agents[k], dr[k])
                    /\ r.total_speed = total_speed + SumSteppedSpeeds(Ids, dr)

\* The first of two vehicles has computed a move and the second, right
\* behind it, is about to compute.
C19_Witness ==
    /\ pc = "step"
    /\ i = 2
    /\ agents[1].next_pos # agents[1].pos
    /\ Ahead(agents[2].pos, 1) = agents[1].pos

\* C20: for the vehicle about to compute, whose gap check gives s: its
\* step() with a draw below 0.3 (0, 1 or 2 tenths) and s > 0 gives speed
\* s - 1, any other gives s; the speed it ends with is one of the two and not
\* negative; with s = 0 it ends with speed 0 and pending position its own
\* cell, and the commit of a vehicle of speed 0 leaves it where it is.
C20_RandomisationRule ==
    [][ /\ pc = "step" =>
              LET a == agents[i]
                  s == DistanceToNext(grid, a.pos,
                                      Accelerate(a.speed, a.max_speed), a.max_speed)
              IN  /\ \A d \in Draws :
                        SteppedVehicle(grid, a, d).speed =
                            IF d \in {0, 1, 2} /\ s > 0 THEN s - 1 ELSE s
                  /\ agents'[i].speed \in {s, s - 1}
                  /\ agents'[i].speed >= 0
                  /\ s = 0 => agents'[i].speed = 0 /\ agents'[i].next_pos = a.pos
        /\ (pc = "advance" /\ agents[i].speed = 0) =>
              /\ agents'[i].pos = agents[i].pos
              /\ grid' = grid
              /\ pc' # "error"
      ]_vars

\* Two vehicles have computed speed 0: one with no empty cell ahead, the
\* other, with an empty cell ahead, by braking.
C20_Witness ==
    /\ pc = "advance"
    /\ i = 1
    /\ steps >= 1
    /\ \E a, b \in Ids :
          /\ a # b
          /\ agents[a].speed = 0 /\ agents[b].speed = 0
          /\ EmptyAhead(grid, agents[a].pos, agents[a].max_speed) = 0
          /\ EmptyAhead(grid, agents[b].pos, agents[b].max_speed) >= 1

=============================================================================
